---- MODULE Spec2Model ----
(***************************************************************************)
(* A model of the ALB access-log analyzer (main.py): the rate-limited      *)
(* ProgressLogger, LogDownloader, LogParser and LogAnalyzer, run in        *)
(* sequence by the __main__ block.  Python strings are TLA+ strings; the   *)
(* string methods the program uses (split, strip, rstrip, in, re.match,    *)
(* strptime, format) are operators computed as Python computes them.       *)
(***************************************************************************)
EXTENDS Integers, Sequences, FiniteSets, TLC

VARIABLES
  pc, err, run,
  start, end, external, internal, force_download,
  s3, folder,
  todo, prefix, keys, ki, count, total, exist, handled, listed, folder0,
  logs, li, ln, temp_file, lines_read,
  parsed_file, stats, ai, report,
  clock, prev_print_at, prints, last_call,
  u_in, u_svc, u_norm

ctl_vars == <<pc, err, run>>
arg_vars == <<start, end, external, internal, force_download>>
env_vars == <<s3, folder>>
dl_vars  == <<todo, prefix, keys, ki, count, total, exist, handled, listed, folder0>>
par_vars == <<logs, li, ln, temp_file, lines_read>>
ana_vars == <<parsed_file, stats, ai, report>>
log_vars == <<clock, prev_print_at, prints, last_call>>
url_vars == <<u_in, u_svc, u_norm>>
vars == <<ctl_vars, arg_vars, env_vars, dl_vars, par_vars, ana_vars, log_vars, url_vars>>

----------------------------------------------------------------------------
(* Python str operations *)

Char(s, i) == SubSeq(s, i, i)

CharSet(chars) == { Char(chars, i) : i \in 1..Len(chars) }

\* sub in s
Contains(s, sub) ==
  \E i \in 1..(Len(s) - Len(sub) + 1) : SubSeq(s, i, i + Len(sub) - 1) = sub

\* index of the first occurrence of the one-character string c in s, 0 if none
FindFrom(s, c, i) ==
  IF \E k \in i..Len(s) : Char(s, k) = c
  THEN CHOOSE k \in i..Len(s) :
         Char(s, k) = c /\ \A m \in i..(k - 1) : Char(s, m) # c
  ELSE 0

\* s.split(sep) for a one-character separator: every piece, empty ones included
RECURSIVE SplitFrom(_, _, _)
SplitFrom(s, sep, i) ==
  LET j == FindFrom(s, sep, i) IN
  IF j = 0 THEN <<SubSeq(s, i, Len(s))>>
  ELSE <<SubSeq(s, i, j - 1)>> \o SplitFrom(s, sep, j + 1)

Split(s, sep) == SplitFrom(s, sep, 1)

\* the index of the first character of s, from i on, that is not in the set cs
LStripFrom(s, cs, i) ==
  CHOOSE k \in i..(Len(s) + 1) :
    /\ k <= Len(s) => Char(s, k) \notin cs
    /\ \A m \in i..(k - 1) : Char(s, m) \in cs

\* the index of the last character of s, from i down to lo, that is not in cs
RStripFrom(s, cs, i, lo) ==
  CHOOSE k \in (lo - 1)..i :
    /\ k >= lo => Char(s, k) \notin cs
    /\ \A m \in (k + 1)..i : Char(s, m) \in cs

\* s.lstrip(chars): drops the leading characters that are members of chars
LStrip(s, chars) == SubSeq(s, LStripFrom(s, CharSet(chars), 1), Len(s))

\* a faulty variant: at most one trailing character is dropped
RStripOne(s, chars) ==
  IF Len(s) > 0 /\ Char(s, Len(s)) \in CharSet(chars)
  THEN SubSeq(s, 1, Len(s) - 1)
  ELSE s

\* s.rstrip(chars): drops the trailing characters that are members of chars
RStrip(s, chars) == SubSeq(s, 1, RStripFrom(s, CharSet(chars), Len(s), 1))

\* s.strip(chars): chars is a set of characters, not a prefix or a suffix
Strip(s, chars) == RStrip(LStrip(s, chars), chars)

Digits == "0123456789"
DigitSet == CharSet(Digits)
\* \w of the re module, for ASCII text
WordSet == CharSet("abcdefghijklmnopqrstuvwxyzABCDEFGHIJKLMNOPQRSTUVWXYZ0123456789_")

----------------------------------------------------------------------------
\* re.match for the patterns of normalize_handler.  A pattern is a sequence of
\* tokens: <<"lit", text>>, <<"star", class>> (zero or more characters of the
\* class) and <<"one", class>> (one character of the class); class is "d" or "w".

ClassSet(c) == IF c = "d" THEN DigitSet ELSE WordSet

\* the length of the run of class characters of s that starts at pos
RunLen(s, pos, cls) == LStripFrom(s, ClassSet(cls), pos) - pos

\* ptn.match(s): the pattern matches a prefix of s (anchored at the start only)
RECURSIVE MatchAt(_, _, _, _)
MatchAt(ptn, k, s, pos) ==
  IF k > Len(ptn) THEN TRUE
  ELSE LET tok == ptn[k] IN
    CASE tok[1] = "lit" ->
           LET n == Len(tok[2]) IN
           /\ pos + n - 1 <= Len(s)
           /\ SubSeq(s, pos, pos + n - 1) = tok[2]
           /\ MatchAt(ptn, k + 1, s, pos + n)
      [] tok[1] = "star" ->
           \E n \in 0..RunLen(s, pos, tok[2]) : MatchAt(ptn, k + 1, s, pos + n)
      [] OTHER ->
           /\ pos <= Len(s)
           /\ Char(s, pos) \in ClassSet(tok[2])
           /\ MatchAt(ptn, k + 1, s, pos + 1)

Match(ptn, s) == MatchAt(ptn, 1, s, 1)

GraphBase == "https://api.soocii.me:443/graph/v1.2/"

\* LogAnalyzer.normalize_handler: the (pattern, endpoint) pairs in insertion order
normalize_handler == <<
  << << <<"lit", GraphBase>>, <<"star", "d">>, <<"lit", "/achievements">> >>,
     GraphBase \o "<id>/achievements" >>,
  << << <<"lit", GraphBase>>, <<"star", "d">>, <<"lit", "/followees/count">> >>,
     GraphBase \o "<id>/followees/count" >>,
  << << <<"lit", GraphBase>>, <<"star", "d">>, <<"lit", "/followers/count">> >>,
     GraphBase \o "<id>/followers/count" >>,
  << << <<"lit", GraphBase \o "users/">>, <<"star", "d">>, <<"lit", "/followees">> >>,
     GraphBase \o "users/<id>/followees" >>,
  << << <<"lit", GraphBase \o "users/">>, <<"star", "d">>, <<"lit", "/followers">> >>,
     GraphBase \o "users/<id>/followers" >>,
  << << <<"lit", GraphBase>>, <<"star", "d">>, <<"lit", "/friendship">> >>,
     GraphBase \o "<id>/friendship" >>,
  << << <<"lit", GraphBase>>, <<"star", "d">>, <<"lit", "/posts">> >>,
     GraphBase \o "<id>/posts" >>,
  << << <<"lit", GraphBase \o "me/feed/">>, <<"star", "w">>, <<"lit", "-">>, <<"star", "w">> >>,
     GraphBase \o "me/feed/<status_id>" >>,
  << << <<"lit", GraphBase>>, <<"star", "w">>, <<"lit", "-">>, <<"star", "w">>,
        <<"lit", "/comments">> >>,
     GraphBase \o "<status_id>/comments" >>,
  << << <<"lit", GraphBase \o "posts/">>, <<"star", "w">>, <<"lit", "-">>, <<"star", "w">>,
        <<"lit", "/likes">> >>,
     GraphBase \o "posts/<status_id>/likes" >>,
  << << <<"lit", GraphBase>>, <<"star", "d">>, <<"lit", "/pinned-posts">> >>,
     GraphBase \o "<id>/pinned-posts" >>,
  << << <<"lit", GraphBase \o "me/posts/">>, <<"star", "w">>, <<"lit", "-">>, <<"one", "w">> >>,
     GraphBase \o "me/posts/<status_id>" >>
>>

----------------------------------------------------------------------------
(* LogAnalyzer._identify_service and LogAnalyzer._normalize_url *)

\* a faulty variant: the first matching rule wins
identify_service_first(url) ==
  IF Contains(url, "api/") THEN "jarvis"
  ELSE IF Contains(url, "graph/v") THEN "pepper"
  ELSE IF Contains(url, "recommendation/v") THEN "vision"
  ELSE IF Contains(url, "search") THEN "pym"
  ELSE IF Contains(url, "titan") THEN "titan"
  ELSE ""

\* five independent ifs, each overwriting service
identify_service(url) ==
  LET s0 == ""
      s1 == IF Contains(url, "api/") THEN "jarvis" ELSE s0
      s2 == IF Contains(url, "graph/v") THEN "pepper" ELSE s1
      s3a == IF Contains(url, "recommendation/v") THEN "vision" ELSE s2
      s4 == IF Contains(url, "search") THEN "pym" ELSE s3a
      s5 == IF Contains(url, "titan") THEN "titan" ELSE s4
  IN s5

\* the for loop of _normalize_url: no break, url is reassigned and tested again
RECURSIVE normalize_loop(_, _)
normalize_loop(url, k) ==
  IF k > Len(normalize_handler) THEN url
  ELSE normalize_loop(IF Match(normalize_handler[k][1], url)
                      THEN normalize_handler[k][2] ELSE url, k + 1)

\* a faulty variant: one trailing slash is dropped
rstrip_one_slash(url) == RStripOne(url, "/")

\* url.rstrip('/')
rstrip_slash(url) == RStrip(url, "/")

normalize_url(url) ==
  LET u1 == Split(url, "?")[1]
      u2 == rstrip_slash(u1)
  IN normalize_loop(u2, 1)

----------------------------------------------------------------------------
(* datetime: a naive datetime is <<year, month, day, hour, minute, second,  *)
(* microsecond>>, a date its first three fields; both compare field by     *)
(* field.                                                                  *)

RECURSIVE LexLess(_, _)
LexLess(a, b) ==
  IF Len(a) = 0 \/ Len(b) = 0 THEN Len(a) < Len(b)
  ELSE IF a[1] # b[1] THEN a[1] < b[1]
  ELSE LexLess(Tail(a), Tail(b))

DateOf(dt) == SubSeq(dt, 1, 3)

IsLeap(y) == (y % 4 = 0 /\ y % 100 # 0) \/ y % 400 = 0

DaysInMonth(y, m) ==
  IF m = 2 THEN (IF IsLeap(y) THEN 29 ELSE 28)
  ELSE IF m \in {4, 6, 9, 11} THEN 30 ELSE 31

\* date + timedelta(days=1)
NextDate(d) ==
  IF d[3] < DaysInMonth(d[1], d[2]) THEN <<d[1], d[2], d[3] + 1>>
  ELSE IF d[2] < 12 THEN <<d[1], d[2] + 1, 1>>
  ELSE <<d[1] + 1, 1, 1>>

AllDigits(s) == \A i \in 1..Len(s) : Char(s, i) \in DigitSet

RECURSIVE ToInt(_)
ToInt(s) ==
  IF Len(s) = 0 THEN 0
  ELSE ToInt(SubSeq(s, 1, Len(s) - 1)) * 10 + (FindFrom(Digits, Char(s, Len(s)), 1) - 1)

DigitStr(d) == Char(Digits, d + 1)
\* '{:02d}'.format(n) for 0 <= n <= 99
Pad2(n) == DigitStr(n \div 10) \o DigitStr(n % 10)
\* '{}'.format(y) for a four-digit year
Year4(y) == DigitStr(y \div 1000) \o DigitStr((y \div 100) % 10)
            \o DigitStr((y \div 10) % 10) \o DigitStr(y % 10)

ValueError == "ValueError"
IndexError == "IndexError"
\* the two RuntimeErrors of _download_with_prefix
NoObjectsFound == "RuntimeError: no files be found on S3"
NoObjectsInRange == "RuntimeError: No objects matched given time period."

\* the outcome of a call: the value returned, or the exception raised
Ok(v) == [exc |-> "none", val |-> v]
Raise(e) == [exc |-> e, val |-> <<>>]

ValidFields(y, mo, d, h, mi, sec) ==
  /\ y >= 1 /\ mo \in 1..12 /\ d >= 1 /\ d <= DaysInMonth(y, mo)
  /\ h <= 23 /\ mi <= 59 /\ sec <= 61

\* datetime.strptime(s, "%Y%m%dT%H%MZ") on zero-padded text (yyyyMMddTHHmmZ);
\* text of any other shape raises ValueError
strptime_key(s) ==
  IF /\ Len(s) = 14
     /\ AllDigits(SubSeq(s, 1, 8)) /\ Char(s, 9) = "T"
     /\ AllDigits(SubSeq(s, 10, 13)) /\ Char(s, 14) = "Z"
     /\ ValidFields(ToInt(SubSeq(s, 1, 4)), ToInt(SubSeq(s, 5, 6)), ToInt(SubSeq(s, 7, 8)),
                    ToInt(SubSeq(s, 10, 11)), ToInt(SubSeq(s, 12, 13)), 0)
  THEN Ok(<< ToInt(SubSeq(s, 1, 4)), ToInt(SubSeq(s, 5, 6)), ToInt(SubSeq(s, 7, 8)),
             ToInt(SubSeq(s, 10, 11)), ToInt(SubSeq(s, 12, 13)), 0, 0 >>)
  ELSE Raise(ValueError)

\* datetime.strptime(s, '%Y-%m-%dT%H:%M:%S.%fZ') on zero-padded text with six
\* fraction digits; any text of another shape raises ValueError
strptime_record(s) ==
  IF /\ Len(s) = 27
     /\ AllDigits(SubSeq(s, 1, 4)) /\ Char(s, 5) = "-"
     /\ AllDigits(SubSeq(s, 6, 7)) /\ Char(s, 8) = "-"
     /\ AllDigits(SubSeq(s, 9, 10)) /\ Char(s, 11) = "T"
     /\ AllDigits(SubSeq(s, 12, 13)) /\ Char(s, 14) = ":"
     /\ AllDigits(SubSeq(s, 15, 16)) /\ Char(s, 17) = ":"
     /\ AllDigits(SubSeq(s, 18, 19)) /\ Char(s, 20) = "."
     /\ AllDigits(SubSeq(s, 21, 26)) /\ Char(s, 27) = "Z"
     /\ ValidFields(ToInt(SubSeq(s, 1, 4)), ToInt(SubSeq(s, 6, 7)), ToInt(SubSeq(s, 9, 10)),
                    ToInt(SubSeq(s, 12, 13)), ToInt(SubSeq(s, 15, 16)), ToInt(SubSeq(s, 18, 19)))
  THEN Ok(<< ToInt(SubSeq(s, 1, 4)), ToInt(SubSeq(s, 6, 7)), ToInt(SubSeq(s, 9, 10)),
             ToInt(SubSeq(s, 12, 13)), ToInt(SubSeq(s, 15, 16)), ToInt(SubSeq(s, 18, 19)),
             ToInt(SubSeq(s, 21, 26)) >>)
  ELSE Raise(ValueError)

\* a faulty variant: the window is closed at its start
in_window_closed(t) == ~LexLess(t, start) /\ LexLess(t, end)

\* self.start < t < self.end
in_window(t) == LexLess(start, t) /\ LexLess(t, end)

----------------------------------------------------------------------------
(* ProgressLogger.  Time is counted in ticks, TicksPerSecond to the second; *)
(* the clock is the environment's and only moves forward.                   *)

TicksPerSecond == 2
MaxClock == 7
MaxPrintDelay == 1

Min(a, b) == IF a < b THEN a ELSE b

\* a faulty variant: prints whenever the clock has moved since the last print
log_guard_any(now) == prev_print_at >= now

\* prev_print_at > datetime.now() - timedelta(seconds=1): the call returns
log_guard(now) == prev_print_at > now - TicksPerSecond

\* ProgressLogger.log(prefix, count, total).  The first datetime.now() reads the
\* clock; the print happens between it and the second datetime.now(), d ticks
\* later, whose value becomes prev_print_at.
Log(label, cnt, tot) ==
  LET now == clock IN
  IF log_guard(now)
  THEN /\ last_call' = [now |-> now, printed |-> FALSE, flip |-> 1 - last_call.flip]
       /\ UNCHANGED <<clock, prev_print_at, prints>>
  ELSE \E d \in 0..Min(MaxPrintDelay, MaxClock - clock) :
         /\ prints' = Append(prints, [from |-> now, to |-> now + d, label |-> label])
         /\ clock' = now + d
         /\ prev_print_at' = now + d
         /\ last_call' = [now |-> now, printed |-> TRUE, flip |-> 1 - last_call.flip]

\* wall-clock time passes
Tick ==
  /\ clock < MaxClock
  /\ clock' = clock + 1
  /\ UNCHANGED <<ctl_vars, arg_vars, env_vars, dl_vars, par_vars, ana_vars,
                 prev_print_at, prints, last_call, url_vars>>

\* class attribute prev_print_at = datetime.now(), evaluated when the class is created
LogInit ==
  /\ clock = 0
  /\ prev_print_at = 0
  /\ prints = <<>>
  /\ last_call = [now |-> 0, printed |-> FALSE, flip |-> 0]

----------------------------------------------------------------------------
(* LogDownloader *)

external_prefix == "710026814108_elasticloadbalancing_ap-northeast-1_app.api-prod-elb."
internal_prefix == "710026814108_elasticloadbalancing_ap-northeast-1_app.api-prod-internal-elb."

\* _download_with_date: base_prefix for the date
base_prefix(d) ==
  "AWSLogs/710026814108/elasticloadbalancing/ap-northeast-1/"
    \o Year4(d[1]) \o "/" \o Pad2(d[2]) \o "/" \o Pad2(d[3]) \o "/"

\* _download_with_date: the prefixes downloaded for one date, external first
download_with_date(d) ==
  (IF external THEN <<base_prefix(d) \o external_prefix>> ELSE <<>>)
    \o (IF internal THEN <<base_prefix(d) \o internal_prefix>> ELSE <<>>)

\* download: while date <= self.end.date(), one date after the other
RECURSIVE download_dates(_)
download_dates(d) ==
  IF LexLess(DateOf(end), d) THEN <<>>
  ELSE download_with_date(d) \o download_dates(NextDate(d))

\* key.strip(prefix): the characters of prefix are stripped from both ends of key
file_name_of(key, pfx) == Strip(key, pfx)

\* is_valid of _filter_object_keys: TRUE, FALSE, or the exception raised
is_valid_key(key, pfx) ==
  LET segs == Split(file_name_of(key, pfx), "_") IN
  IF Len(segs) < 2 THEN Raise(IndexError)
  ELSE LET t == strptime_key(segs[2]) IN
       IF t.exc # "none" THEN Raise(t.exc) ELSE Ok(in_window(t.val))

\* list(filter(is_valid, keys)): the keys kept, or the first exception raised
RECURSIVE filter_object_keys(_, _)
filter_object_keys(ks, pfx) ==
  IF ks = <<>> THEN Ok(<<>>)
  ELSE LET v == is_valid_key(Head(ks), pfx) IN
       IF v.exc # "none" THEN Raise(v.exc)
       ELSE LET rest == filter_object_keys(Tail(ks), pfx) IN
            IF rest.exc # "none" THEN rest
            ELSE IF v.val THEN Ok(<<Head(ks)>> \o rest.val) ELSE rest

\* the body of the remote object with this key
BodyOf(pfx, key) ==
  LET hit == { i \in 1..Len(s3[pfx]) : s3[pfx][i].Key = key } IN
  s3[pfx][CHOOSE i \in hit : TRUE].Body

\* __main__ constructs the downloader and calls download(): the staging folder
\* exists and the loop starts at start.date()
DownloadStart ==
  /\ pc = "start"
  /\ todo' = download_dates(DateOf(start))
  /\ pc' = "download"
  /\ folder0' = folder
  /\ UNCHANGED <<err, run, arg_vars, env_vars, prefix, keys, ki, count, total, exist,
                 handled, listed, par_vars, ana_vars, log_vars, url_vars>>

\* a faulty variant: a prefix with no objects, or none in the window, is skipped
ListOutcomeSkip(ret, pfx) ==
  LET ks == [i \in 1..Len(ret) |-> ret[i].Key]
      kept == filter_object_keys(ks, pfx)
  IN IF kept.exc # "none"
     THEN [err |-> kept.exc, pc |-> "aborted", keys |-> <<>>]
     ELSE [err |-> "none", pc |-> "keys", keys |-> kept.val]

\* _download_with_prefix, lines 68-79: what the listing and the filter lead to
ListOutcome(ret, pfx) ==
  IF ret = <<>>
  THEN [err |-> NoObjectsFound, pc |-> "aborted", keys |-> <<>>]
  ELSE LET ks == [i \in 1..Len(ret) |-> ret[i].Key]
           kept == filter_object_keys(ks, pfx)
       IN IF kept.exc # "none"
          THEN [err |-> kept.exc, pc |-> "aborted", keys |-> <<>>]
          ELSE IF kept.val = <<>>
          THEN [err |-> NoObjectsInRange, pc |-> "aborted", keys |-> <<>>]
          ELSE [err |-> "none", pc |-> "keys", keys |-> kept.val]

\* _download_with_prefix up to the loop: list_objects_v2 (one call, no
\* continuation), RuntimeError("no files be found on S3") when the listing has
\* no Contents, the time filter, RuntimeError("No objects matched given time
\* period.") when nothing is left
DownloadWithPrefix ==
  /\ pc = "download"
  /\ todo # <<>>
  /\ LET pfx == Head(todo)
         out == ListOutcome(s3[pfx], pfx)
     IN /\ prefix' = pfx
        /\ todo' = Tail(todo)
        /\ listed' = Append(listed, pfx)
        /\ err' = out.err
        /\ pc' = out.pc
        /\ keys' = out.keys
        /\ ki' = 1
        /\ count' = 0
        /\ total' = Len(out.keys)
        /\ exist' = 0
  /\ UNCHANGED <<run, arg_vars, env_vars, handled, folder0, par_vars, ana_vars,
                 log_vars, url_vars>>

\* not (not self.force_download and (self.folder / file_name).exists())
must_fetch(file_name) == force_download \/ file_name \notin DOMAIN folder

\* one iteration of "for key in keys": skip an existing file unless forced,
\* otherwise download_file to folder / file_name and log the progress
DownloadKey ==
  /\ pc = "keys"
  /\ ki <= Len(keys)
  /\ LET key == keys[ki]
         file_name == file_name_of(key, prefix)
     IN IF ~must_fetch(file_name)
        THEN /\ total' = total - 1
             /\ exist' = exist + 1
             /\ handled' = Append(handled, [Key |-> key, prefix |-> prefix,
                                            file_name |-> file_name, fetched |-> FALSE])
             /\ UNCHANGED <<folder, count, log_vars>>
        ELSE /\ folder' = [f \in DOMAIN folder \cup {file_name} |->
                             IF f = file_name THEN BodyOf(prefix, key) ELSE folder[f]]
             /\ count' = count + 1
             /\ handled' = Append(handled, [Key |-> key, prefix |-> prefix,
                                            file_name |-> file_name, fetched |-> TRUE])
             /\ Log("Download", count + 1, total)
             /\ UNCHANGED <<total, exist>>
  /\ ki' = ki + 1
  /\ UNCHANGED <<ctl_vars, arg_vars, s3, todo, prefix, keys, listed, folder0,
                 par_vars, ana_vars, url_vars>>

\* the loop of _download_with_prefix is over: "Download complete!", back to download()
DownloadPrefixDone ==
  /\ pc = "keys"
  /\ ki > Len(keys)
  /\ pc' = "download"
  /\ UNCHANGED <<err, run, arg_vars, env_vars, dl_vars, par_vars, ana_vars, log_vars, url_vars>>

\* download() returns: every date up to end.date() is done
DownloadDone ==
  /\ pc = "download"
  /\ todo = <<>>
  /\ pc' = "downloaded"
  /\ UNCHANGED <<err, run, arg_vars, env_vars, dl_vars, par_vars, ana_vars, log_vars, url_vars>>

----------------------------------------------------------------------------
(* LogParser *)

\* iterating a file opened in binary mode: the pieces that end at each "\n",
\* and what follows the last "\n" when it is not empty
RECURSIVE LinesFrom(_, _)
LinesFrom(b, i) ==
  IF i > Len(b) THEN <<>>
  ELSE LET j == FindFrom(b, "\n", i) IN
       IF j = 0 THEN <<SubSeq(b, i, Len(b))>>
       ELSE <<SubSeq(b, i, j)>> \o LinesFrom(b, j + 1)

Lines(b) == LinesFrom(b, 1)

RECURSIVE Concat(_)
Concat(chunks) == IF chunks = <<>> THEN "" ELSE Head(chunks) \o Concat(Tail(chunks))

\* the concatenation of a sequence of sequences
RECURSIVE Concat2(_)
Concat2(seqs) == IF seqs = <<>> THEN <<>> ELSE Head(seqs) \o Concat2(Tail(seqs))

EndsWith(s, suf) == Len(s) >= Len(suf) /\ SubSeq(s, Len(s) - Len(suf) + 1, Len(s)) = suf

\* download_folder.glob('*.gz'): the names, in no particular order
Glob == { f \in DOMAIN folder : EndsWith(f, ".gz") }

\* is_valid of LogParser._filter
is_valid_file(name) ==
  LET segs == Split(name, "_") IN
  IF Len(segs) < 2 THEN Raise(IndexError)
  ELSE LET t == strptime_key(segs[2]) IN
       IF t.exc # "none" THEN Raise(t.exc) ELSE Ok(in_window(t.val))

\* list(filter(is_valid, logs))
RECURSIVE filter_logs(_)
filter_logs(ls) ==
  IF ls = <<>> THEN Ok(<<>>)
  ELSE LET v == is_valid_file(Head(ls)) IN
       IF v.exc # "none" THEN Raise(v.exc)
       ELSE LET rest == filter_logs(Tail(ls)) IN
            IF rest.exc # "none" THEN rest
            ELSE IF v.val THEN Ok(<<Head(ls)>> \o rest.val) ELSE rest

\* the sequences that list every member of the finite set S once
Orders(S) ==
  { o \in [1..Cardinality(S) -> S] : \A i, j \in 1..Cardinality(S) : i # j => o[i] # o[j] }

\* __main__ constructs the parser (an empty temporary file); parse() globs
\* the staging folder and filters the archives by the time in their names
ParseStart ==
  /\ pc = "downloaded"
  /\ \E o \in Orders(Glob) :
       LET kept == filter_logs(o) IN
       IF kept.exc # "none"
       THEN /\ err' = kept.exc
            /\ pc' = "aborted"
            /\ logs' = <<>>
       ELSE /\ err' = err
            /\ pc' = "parse"
            /\ logs' = kept.val
  /\ li' = 1
  /\ ln' = 1
  /\ temp_file' = <<>>
  /\ lines_read' = <<>>
  /\ UNCHANGED <<run, arg_vars, env_vars, dl_vars, ana_vars, log_vars, url_vars>>

\* a faulty variant: the method is field 13 and the URL field 14
parse_fields_shifted(split) ==
  IF Len(split) < 15 THEN Raise(IndexError)
  ELSE Ok(split[2] \o " " \o Strip(split[14], "\"") \o " " \o split[15] \o "\n")

\* "{datetime} {method} {url}\n".format(datetime=split[1],
\* method=split[12].strip("\""), url=split[13]); IndexError when the line has
\* fewer than 14 fields.  Python counts from 0, a TLA+ sequence from 1.
parse_fields(split) ==
  IF Len(split) < 14 THEN Raise(IndexError)
  ELSE Ok(split[2] \o " " \o Strip(split[13], "\"") \o " " \o split[14] \o "\n")

\* the text written for one line of an archive
parse_text(line) == parse_fields(Split(line, " "))

\* one line: the exception ends the run, otherwise the text is written
ParseOutcome(line) ==
  LET text == parse_text(line) IN
  IF text.exc # "none" THEN [err |-> text.exc, pc |-> "aborted", out |-> <<>>]
  ELSE [err |-> "none", pc |-> "parse", out |-> <<text.val>>]

\* one iteration of "for line in in_f" on the archive logs[li]
ParseLine ==
  /\ pc = "parse"
  /\ li <= Len(logs)
  /\ ln <= Len(Lines(folder[logs[li]]))
  /\ LET line == Lines(folder[logs[li]])[ln]
         out == ParseOutcome(line)
     IN /\ lines_read' = Append(lines_read, line)
        /\ temp_file' = temp_file \o out.out
        /\ err' = out.err
        /\ pc' = out.pc
  /\ ln' = ln + 1
  /\ UNCHANGED <<run, arg_vars, env_vars, dl_vars, logs, li, ana_vars, log_vars, url_vars>>

\* the archive logs[li] is read to its end: count += 1 and the progress is logged
ParseFileDone ==
  /\ pc = "parse"
  /\ li <= Len(logs)
  /\ ln > Len(Lines(folder[logs[li]]))
  /\ li' = li + 1
  /\ ln' = 1
  /\ Log("Parsing gz files", li, Len(logs))
  /\ UNCHANGED <<ctl_vars, arg_vars, env_vars, dl_vars, logs, temp_file, lines_read,
                 ana_vars, url_vars>>

\* every archive is read: the temporary file is rewound
ParseDone ==
  /\ pc = "parse"
  /\ li > Len(logs)
  /\ pc' = "parsed"
  /\ UNCHANGED <<err, run, arg_vars, env_vars, dl_vars, par_vars, ana_vars, log_vars, url_vars>>

----------------------------------------------------------------------------
(* LogAnalyzer.stat_api_calls *)

\* _parse_line: "log_datetime, method, url = line.split(' ')" raises ValueError
\* unless there are exactly three fields; then strptime
parse_line(line) ==
  LET f == Split(line, " ") IN
  IF Len(f) # 3 THEN Raise(ValueError)
  ELSE LET t == strptime_record(f[1]) IN
       IF t.exc # "none" THEN Raise(t.exc)
       ELSE Ok([log_at |-> t.val, method |-> f[2], url |-> f[3]])

\* a faulty variant: records at the start of the window are counted
passes_filters_closed(log_at, url) ==
  in_window_closed(log_at) /\ ~Contains(url, "content/corpus")

\* the two "continue" tests: the record is counted when both let it through
passes_filters(log_at, url) ==
  in_window(log_at) /\ ~Contains(url, "content/corpus")

\* "{} {} {}".format(service, method, url)
stats_key(service, method, url) == service \o " " \o method \o " " \o url

KeyIndex(st, key) == { i \in 1..Len(st) : st[i].key = key }

\* a faulty variant: an entry counted again moves to the end
stats_incr_move(st, key) ==
  IF KeyIndex(st, key) = {} THEN Append(st, [key |-> key, n |-> 1])
  ELSE LET i == CHOOSE j \in KeyIndex(st, key) : TRUE IN
       SubSeq(st, 1, i - 1) \o SubSeq(st, i + 1, Len(st))
         \o <<[key |-> key, n |-> st[i].n + 1]>>

\* stats[key] += 1 on a defaultdict(lambda: 0): a dict keeps the order in which
\* its keys were first inserted
stats_incr(st, key) ==
  IF KeyIndex(st, key) = {} THEN Append(st, [key |-> key, n |-> 1])
  ELSE [i \in 1..Len(st) |-> IF st[i].key = key THEN [st[i] EXCEPT !.n = @ + 1] ELSE st[i]]

\* the rows written after the header: the key is split on ' ' again
report_rows(st) ==
  [i \in 1..Len(st) |->
     LET split == Split(st[i].key, " ") IN <<split[1], split[2], split[3], st[i].n>>]

Header == <<"service", "method", "url", "count">>

\* __main__ hands log_parser.parsed_file (rewound) to stat_api_calls, which
\* counts the lines and rewinds again
AnalyzeStart ==
  /\ pc = "parsed"
  /\ parsed_file' = Lines(Concat(temp_file))
  /\ stats' = <<>>
  /\ ai' = 1
  /\ pc' = "analyze"
  /\ UNCHANGED <<err, run, arg_vars, env_vars, dl_vars, par_vars, report, log_vars, url_vars>>

\* one iteration of "for line in parsed_file"
AnalyzeLine ==
  /\ pc = "analyze"
  /\ ai <= Len(parsed_file)
  /\ Log("Analyzing", ai, Len(parsed_file))
  /\ LET rec == parse_line(Strip(parsed_file[ai], "\n")) IN
     IF rec.exc # "none"
     THEN /\ err' = rec.exc
          /\ pc' = "aborted"
          /\ stats' = stats
     ELSE /\ UNCHANGED <<err, pc>>
          /\ stats' = IF passes_filters(rec.val.log_at, rec.val.url)
                      THEN stats_incr(stats, stats_key(identify_service(rec.val.url),
                                                       rec.val.method,
                                                       normalize_url(rec.val.url)))
                      ELSE stats
  /\ ai' = ai + 1
  /\ UNCHANGED <<run, arg_vars, env_vars, dl_vars, par_vars, parsed_file, report, url_vars>>

\* the stream is read to its end: the CSV file is written
WriteReport ==
  /\ pc = "analyze"
  /\ ai > Len(parsed_file)
  /\ report' = <<Header>> \o report_rows(stats)
  /\ pc' = "done"
  /\ UNCHANGED <<err, run, arg_vars, env_vars, dl_vars, par_vars, parsed_file, stats, ai,
                 log_vars, url_vars>>

----------------------------------------------------------------------------
(* The pure functions applied to one URL *)

ApplyIdentifyService ==
  /\ pc = "url"
  /\ u_svc = "unset"
  /\ u_svc' = identify_service(u_in)
  /\ UNCHANGED <<ctl_vars, arg_vars, env_vars, dl_vars, par_vars, ana_vars, log_vars,
                 u_in, u_norm>>

ApplyNormalizeUrl ==
  /\ pc = "url"
  /\ u_norm = "unset"
  /\ u_norm' = normalize_url(u_in)
  /\ UNCHANGED <<ctl_vars, arg_vars, env_vars, dl_vars, par_vars, ana_vars, log_vars,
                 u_in, u_svc>>

\* ProgressLogger.log called on its own, by any of the three stages
LogCall ==
  /\ pc = "log"
  /\ \E label \in {"Download", "Parsing gz files", "Analyzing"} : Log(label, 1, 1)
  /\ UNCHANGED <<ctl_vars, arg_vars, env_vars, dl_vars, par_vars, ana_vars, url_vars>>

----------------------------------------------------------------------------
(* Initial states: the inputs each specification draws *)

EmptyFn == [x \in {} |-> ""]

CtlInit(at) == pc = at /\ err = "none" /\ run = 1

DlIdle ==
  /\ todo = <<>> /\ prefix = "" /\ keys = <<>> /\ ki = 1
  /\ count = 0 /\ total = 0 /\ exist = 0
  /\ handled = <<>> /\ listed = <<>> /\ folder0 = EmptyFn

ParIdle == logs = <<>> /\ li = 1 /\ ln = 1 /\ temp_file = <<>> /\ lines_read = <<>>

AnaIdle == parsed_file = <<>> /\ stats = <<>> /\ ai = 1 /\ report = <<>>

UrlIdle == u_in = "" /\ u_svc = "unset" /\ u_norm = "unset"

\* the window 2018-03-21 01:00:00 to 01:10:00 (UTC, naive)
WinStart == <<2018, 3, 21, 1, 0, 0, 0>>
WinEnd == <<2018, 3, 21, 1, 10, 0, 0>>

ArgsIdle ==
  /\ start = WinStart /\ end = WinEnd
  /\ external = TRUE /\ internal = FALSE /\ force_download = FALSE

\* the members of seq whose index is in S, in the order of seq
RECURSIVE Pick(_, _, _)
Pick(seq, S, i) ==
  IF i > Len(seq) THEN <<>>
  ELSE (IF i \in S THEN <<seq[i]>> ELSE <<>>) \o Pick(seq, S, i + 1)

\* the sequences of at most n members of the set S
SeqsUpTo(S, n) == UNION { [1..k -> S] : k \in 0..n }

----------------------------------------------------------------------------
(* URLs *)

UrlHeads == { GraphBase, "https://api.soocii.me:443/api/v1/", "http://10.0.0.1:80/" }

UrlPaths == {
  "123/achievements", "12a/achievements", "5/followees/count", "5/followers/count",
  "users/7/followees", "users/7/followers", "5/friendship", "/posts", "42/posts",
  "me/feed/ab-cd", "ab_1-cd/comments", "posts/a-b/likes", "posts/a-b", "9/pinned-posts",
  "me/posts/a-b", "me/posts/a-", "search/titan", "titan/search", "research",
  "recommendation/v1/x", "content/corpus/1", "a/b" }

UrlTails == { "", "/", "//", "/more" }

UrlQueries == { "", "?x=1", "?next=/a/b/", "/?q=titan" }

UrlSet == { h \o p \o t \o q : h \in UrlHeads, p \in UrlPaths, t \in UrlTails, q \in UrlQueries }

InitUrl ==
  /\ CtlInit("url")
  /\ ArgsIdle /\ s3 = EmptyFn /\ folder = EmptyFn
  /\ DlIdle /\ ParIdle /\ AnaIdle /\ LogInit
  /\ u_in \in UrlSet /\ u_svc = "unset" /\ u_norm = "unset"

NextUrl == ApplyIdentifyService \/ ApplyNormalizeUrl

SpecUrl == InitUrl /\ [][NextUrl]_vars

----------------------------------------------------------------------------
(* The logger on its own *)

InitLog ==
  /\ CtlInit("log")
  /\ ArgsIdle /\ s3 = EmptyFn /\ folder = EmptyFn
  /\ DlIdle /\ ParIdle /\ AnaIdle /\ LogInit /\ UrlIdle

NextLog == Tick \/ LogCall

SpecLog == InitLog /\ [][NextLog]_vars

----------------------------------------------------------------------------
(* Claims about the pure URL functions, under SpecUrl *)

ServiceRules == <<
  <<"api/", "jarvis">>, <<"graph/v", "pepper">>, <<"recommendation/v", "vision">>,
  <<"search", "pym">>, <<"titan", "titan">> >>

SetMax(S) == CHOOSE x \in S : \A y \in S : y <= x
SetMin(S) == CHOOSE x \in S : \A y \in S : x <= y

MatchingServiceRules(url) ==
  { i \in 1..Len(ServiceRules) : Contains(url, ServiceRules[i][1]) }

\* C3: the service is the tag of the last rule, in the fixed order, whose
\* substring occurs in the URL, and the empty string when no rule's does.
C3_LastRuleWins ==
  u_svc # "unset" =>
    u_svc = IF MatchingServiceRules(u_in) = {} THEN ""
            ELSE ServiceRules[SetMax(MatchingServiceRules(u_in))][2]

\* a URL in which 'titan' comes before 'search' is classified, as titan
C3_Witness ==
  /\ u_svc = "titan"
  /\ Contains(u_in, "titan/search")
  /\ Contains(u_in, "api/")

\* the part of url before its first '?'
BeforeQuery(url) ==
  LET n == CHOOSE k \in 0..Len(url) :
             /\ \A i \in 1..k : Char(url, i) # "?"
             /\ k = Len(url) \/ Char(url, k + 1) = "?"
  IN SubSeq(url, 1, n)

\* url without one trailing '/', if it has one
LessOneSlash(url) ==
  IF Len(url) > 0 /\ Char(url, Len(url)) = "/" THEN SubSeq(url, 1, Len(url) - 1) ELSE url

\* url without the whole run of '/' at its end
LessTrailingSlashes(url) ==
  LET n == CHOOSE k \in 0..Len(url) :
             /\ k = 0 \/ Char(url, k) # "/"
             /\ \A i \in (k + 1)..Len(url) : Char(url, i) = "/"
  IN SubSeq(url, 1, n)

MatchingHandlers(url) ==
  { k \in 1..Len(normalize_handler) : Match(normalize_handler[k][1], url) }

\* the endpoint of the first rule that matches, url itself when none does
FirstRuleApplied(url) ==
  IF MatchingHandlers(url) = {} THEN url
  ELSE normalize_handler[SetMin(MatchingHandlers(url))][2]

\* C4 as stated: the query is cut, ONE trailing '/' is dropped, and the first
\* matching rule's endpoint replaces the URL.
C4_AsStated ==
  u_norm # "unset" => u_norm = FirstRuleApplied(LessOneSlash(BeforeQuery(u_in)))

\* C4 amended: the query is cut, EVERY trailing '/' is dropped, and the first
\* matching rule's endpoint replaces the URL (the URL is unchanged when no rule
\* matches).
C4_AllSlashesStripped ==
  u_norm # "unset" => u_norm = FirstRuleApplied(LessTrailingSlashes(BeforeQuery(u_in)))

\* a URL with a query and a run of two trailing slashes is normalized to a template
C4_Witness ==
  /\ u_norm = GraphBase \o "<id>/achievements"
  /\ EndsWith(BeforeQuery(u_in), "//")
  /\ Contains(u_in, "?x=1")

----------------------------------------------------------------------------
(* The claim about the logger, under SpecLog *)

\* the earliest moment of the last emission, the logger's creation before any
LastEmission == IF prints = <<>> THEN 0 ELSE prints[Len(prints)].from

\* C10: two emissions are at least one second apart, and a log call made less
\* than one second after the last emission (or after the logger's creation)
\* prints nothing and leaves prev_print_at as it was.
C10_OncePerSecond ==
  /\ [](\A i \in 1..(Len(prints) - 1) : prints[i + 1].from - prints[i].to >= TicksPerSecond)
  /\ [][(last_call' # last_call /\ clock - LastEmission < TicksPerSecond)
          => (prints' = prints /\ prev_print_at' = prev_print_at)]_vars

\* after two emissions a later call, made within the second, was suppressed
C10_Witness ==
  /\ Len(prints) >= 2
  /\ ~last_call.printed
  /\ last_call.now > prints[Len(prints)].to

----------------------------------------------------------------------------
(* The downloader on its own, run twice over the same listing *)

MaxKeys == 2
MaxStaged == 1
MaxRuns == 2

\* what follows the prefix in the keys of one day, in the order S3 lists them:
\* <load balancer id>_<end time>_<ip>_<random>.log.gz
Remainders == <<
  "a1_20180321T0105Z_1.2.3.4_x4.log.gz",
  "af5_20180321T0105Z_1.2.3.4_x2.log.gz",
  "f5_20180321T0100Z_1.2.3.4_x1.log.gz",
  "f5_20180321T0105Z_1.2.3.4_x2.log.gz",
  "f5_20180321T0107Z_1.2.3.4_x5.log.gz",
  "f5_20180321T0110Z_1.2.3.4_x3.log.gz" >>

\* one access-log line of an ALB, inside the window
AlbLine ==
  "h2 2018-03-21T01:05:30.000000Z app/api-prod-elb/f5 1.2.3.4:5 10.0.0.1:80 0.001 0.002 0.000 "
    \o "200 200 34 366 \"GET https://api.soocii.me:443/graph/v1.2/123/achievements?x=1 "
    \o "HTTP/1.1\" \"curl\" - -"

GoodBody == AlbLine \o "\n"

Listing(pfx, rems, S, body) ==
  LET ks == Pick(rems, S, 1) IN [i \in 1..Len(ks) |-> [Key |-> pfx \o ks[i], Body |-> body]]

Range(seq) == { seq[i] : i \in 1..Len(seq) }

StagedNames == { Remainders[2], Remainders[4], Remainders[5] }

InitDownload ==
  /\ CtlInit("start")
  /\ start = WinStart /\ end = WinEnd
  /\ \E fl \in { <<TRUE, FALSE>>, <<TRUE, TRUE>>, <<FALSE, TRUE>> } :
       external = fl[1] /\ internal = fl[2]
  /\ force_download \in BOOLEAN
  /\ \E c \in [Range(download_dates(DateOf(start))) ->
                 { S \in SUBSET (1..Len(Remainders)) : Cardinality(S) <= MaxKeys }] :
       s3 = [p \in DOMAIN c |-> Listing(p, Remainders, c[p], GoodBody)]
  /\ \E F \in { G \in SUBSET StagedNames : Cardinality(G) <= MaxStaged } :
       folder = [f \in F |-> GoodBody]
  /\ DlIdle /\ ParIdle /\ AnaIdle /\ LogInit /\ UrlIdle

\* the program is started again with the same arguments: a new process, a new
\* downloader and logger, the staging folder as the last run left it
Rerun ==
  /\ pc = "downloaded"
  /\ run < MaxRuns
  /\ run' = run + 1
  /\ pc' = "start"
  /\ todo' = <<>> /\ prefix' = "" /\ keys' = <<>> /\ ki' = 1
  /\ count' = 0 /\ total' = 0 /\ exist' = 0
  /\ handled' = <<>> /\ listed' = <<>>
  /\ prev_print_at' = clock /\ prints' = <<>>
  /\ last_call' = [now |-> clock, printed |-> FALSE, flip |-> 0]
  /\ UNCHANGED <<err, arg_vars, env_vars, folder0, par_vars, ana_vars, clock, url_vars>>

NextDownload ==
  \/ DownloadStart \/ DownloadWithPrefix \/ DownloadKey \/ DownloadPrefixDone
  \/ DownloadDone \/ Rerun

SpecDownload == InitDownload /\ [][NextDownload]_vars

\* the key without its leading listing prefix
KeyRemainder(key, pfx) ==
  IF Len(key) >= Len(pfx) /\ SubSeq(key, 1, Len(pfx)) = pfx
  THEN SubSeq(key, Len(pfx) + 1, Len(key))
  ELSE key

\* the time a key embeds: segment 1 of its remainder split on '_'
EmbeddedTime(key, pfx) == strptime_key(Split(KeyRemainder(key, pfx), "_")[2])

EmbeddedInWindow(key, pfx) ==
  LET t == EmbeddedTime(key, pfx) IN
  t.exc = "none" /\ LexLess(start, t.val) /\ LexLess(t.val, end)

ListedKeys(pfx) == { s3[pfx][i].Key : i \in 1..Len(s3[pfx]) }

FetchedKeys == { handled[i].Key : i \in { j \in 1..Len(handled) : handled[j].fetched } }

\* C1 as stated: a run with force=false that has ended fetched exactly the
\* listed keys whose embedded time is strictly inside the window and whose
\* local file (the key without the prefix) was not staged when the run began;
\* a second run over the same listing fetches nothing.
C1_AsStated ==
  (~force_download /\ pc \in {"downloaded", "aborted"}) =>
    /\ \A p \in Range(listed) : \A k \in ListedKeys(p) :
         k \in FetchedKeys <=>
           (EmbeddedInWindow(k, p) /\ KeyRemainder(k, p) \notin DOMAIN folder0)
    /\ run >= 2 => FetchedKeys = {}

\* C9 as stated: the local file name used for a key is the key with the
\* leading listing prefix removed and nothing else removed.
C9_AsStated ==
  \A i \in 1..Len(handled) :
    handled[i].file_name = KeyRemainder(handled[i].Key, handled[i].prefix)

----------------------------------------------------------------------------
(* The parser on its own, over a staged folder *)

MaxLines == 2

\* the line of the spec's example: 'x', the time, eleven 'x', '"GET"', '/a/b', 'x'
ExampleLine ==
  "x 2018-03-21T01:02:03.000000Z x x x x x x x x x x x \"GET\" /a/b x"

\* a line with exactly 14 fields
Line14 == "h2 2018-03-21T01:05:30.000000Z e c t 0.1 0.2 0.3 200 200 34 366 \"GET /a/b"

\* a line with 13 fields
Line13 == "h2 2018-03-21T01:05:30.000000Z e c t 0.1 0.2 0.3 200 200 34 366 \"GET"

LinePool == { ExampleLine, AlbLine, Line14, Line13 }

RECURSIVE JoinLines(_)
JoinLines(ls) == IF ls = <<>> THEN "" ELSE Head(ls) \o "\n" \o JoinLines(Tail(ls))

\* archives of at most MaxLines lines; the last line may lack its "\n"
Bodies ==
  LET full == { JoinLines(ls) : ls \in SeqsUpTo(LinePool, MaxLines) }
  IN full \cup { SubSeq(b, 1, Len(b) - 1) : b \in full \ {""} }

\* staged archives: Remainders[4] and [5] are inside the window, [3] is at its
\* start and [6] at its end
InitParse ==
  /\ CtlInit("downloaded")
  /\ ArgsIdle /\ s3 = EmptyFn
  /\ \E b \in Bodies, F \in SUBSET { Remainders[3], Remainders[5], Remainders[6] } :
       folder = [f \in F \cup { Remainders[4] } |-> IF f = Remainders[4] THEN b ELSE GoodBody]
  /\ DlIdle /\ ParIdle /\ AnaIdle /\ LogInit /\ UrlIdle

NextParse == ParseStart \/ ParseLine \/ ParseFileDone \/ ParseDone

SpecParse == InitParse /\ [][NextParse]_vars

\* a line without its line terminator
Chomp(line) == IF EndsWith(line, "\n") THEN SubSeq(line, 1, Len(line) - 1) ELSE line

\* the record of a line: field 1, field 12 without its quotes, field 13
RecordOf(line) ==
  LET f == Split(Chomp(line), " ") IN
  f[2] \o " " \o Strip(f[13], "\"") \o " " \o f[14] \o "\n"

NameInWindow(name) ==
  LET t == strptime_key(Split(name, "_")[2]) IN
  t.exc = "none" /\ LexLess(start, t.val) /\ LexLess(t.val, end)

\* C6 as stated: after parse, the archives read are exactly the staged ones
\* whose name embeds a time strictly inside the window, and the stream holds
\* one record per line read (every line having at least 14 fields), in line
\* order, and nothing else.
C6_AsStated ==
  pc = "parsed" =>
    /\ Range(logs) \subseteq DOMAIN folder
    /\ \A f \in DOMAIN folder : f \in Range(logs) <=> NameInWindow(f)
    /\ lines_read = Concat2([i \in 1..Len(logs) |-> Lines(folder[logs[i]])])
    /\ Lines(Concat(temp_file)) = [j \in 1..Len(lines_read) |-> RecordOf(lines_read[j])]

ExampleRead(j) == j <= Len(temp_file) /\ Chomp(lines_read[j]) = ExampleLine

\* C7 as stated: for the example line the parser emits
\* '2018-03-21T01:02:03.000000Z GET /a/b'.
C7_AsStated ==
  \A j \in 1..Len(lines_read) :
    ExampleRead(j) => temp_file[j] = "2018-03-21T01:02:03.000000Z GET /a/b\n"

\* C7 amended: for the example line the parser emits
\* '2018-03-21T01:02:03.000000Z x "GET"': index 12 holds the eleventh 'x' and
\* index 13 holds '"GET"', quotes kept.
C7_EmitsIndex12And13 ==
  \A j \in 1..Len(lines_read) :
    ExampleRead(j) => temp_file[j] = "2018-03-21T01:02:03.000000Z x \"GET\"\n"

\* the example line was read from an archive and its record written
C7_Witness ==
  \E j \in 1..Len(lines_read) :
    /\ ExampleRead(j)
    /\ temp_file[j] = "2018-03-21T01:02:03.000000Z x \"GET\"\n"

----------------------------------------------------------------------------
(* The analyzer on its own, over a record stream *)

MaxRecords == 3

UrlA1 == GraphBase \o "123/achievements?x=1"
UrlA2 == GraphBase \o "456/achievements/"
UrlB == GraphBase \o "42/posts"
UrlCorpus == "https://api.soocii.me:443/api/v1/content/corpus/1"

\* records at the start of the window, at its end, one microsecond inside it
\* and inside it; a record of the excluded URL; and the empty line
RecordPool == {
  "2018-03-21T01:00:00.000000Z GET " \o UrlA1 \o "\n",
  "2018-03-21T01:10:00.000000Z GET " \o UrlA1 \o "\n",
  "2018-03-21T01:00:00.000001Z GET " \o UrlA1 \o "\n",
  "2018-03-21T01:05:00.000000Z GET " \o UrlA2 \o "\n",
  "2018-03-21T01:05:00.000000Z GET " \o UrlB \o "\n",
  "2018-03-21T01:05:00.000000Z POST " \o UrlB \o "\n",
  "2018-03-21T01:05:00.000000Z GET " \o UrlCorpus \o "\n",
  "\n" }

InitAnalyze ==
  /\ CtlInit("parsed")
  /\ ArgsIdle /\ s3 = EmptyFn /\ folder = EmptyFn
  /\ DlIdle
  /\ logs = <<>> /\ li = 1 /\ ln = 1 /\ lines_read = <<>>
  /\ temp_file \in SeqsUpTo(RecordPool, MaxRecords)
  /\ AnaIdle /\ LogInit /\ UrlIdle

NextAnalyze == AnalyzeStart \/ AnalyzeLine \/ WriteReport

SpecAnalyze == InitAnalyze /\ [][NextAnalyze]_vars

\* the three fields of a record
FieldsOf(line) == Split(Chomp(line), " ")

\* the record's time is strictly inside the window and its URL does not
\* contain 'content/corpus'
Qualifies(line) ==
  LET t == strptime_record(FieldsOf(line)[1]) IN
  /\ t.exc = "none"
  /\ LexLess(start, t.val) /\ LexLess(t.val, end)
  /\ ~Contains(FieldsOf(line)[3], "content/corpus")

RECURSIVE SumCounts(_)
SumCounts(st) == IF st = <<>> THEN 0 ELSE Head(st).n + SumCounts(Tail(st))

RECURSIVE SumRows(_)
SumRows(rows) == IF rows = <<>> THEN 0 ELSE Head(rows)[4] + SumRows(Tail(rows))

\* C2: while the analyzer runs, the counts add up to the number of records
\* read so far whose time is strictly inside the window and whose URL does not
\* contain 'content/corpus' (so each record adds one to a count exactly when it
\* is such a record), and the counts of the report written add up to the
\* number of such records of the stream.
C2_CountedIffInWindowAndNotCorpus ==
  /\ pc = "analyze" =>
       SumCounts(stats) = Cardinality({ j \in 1..(ai - 1) : Qualifies(parsed_file[j]) })
  /\ pc = "done" =>
       SumRows(Tail(report))
         = Cardinality({ j \in 1..Len(parsed_file) : Qualifies(parsed_file[j]) })

\* a report over a stream with a record at the start of the window, a record
\* of the excluded URL and a record inside the window: one is counted
C2_Witness ==
  /\ pc = "done"
  /\ \E i, j, k \in 1..Len(parsed_file) :
       /\ strptime_record(FieldsOf(parsed_file[i])[1]).val = start
       /\ Contains(parsed_file[j], "content/corpus")
       /\ Qualifies(parsed_file[k])
  /\ SumRows(Tail(report)) = 1

\* the (service, method, normalized URL) key of a record
TripleOf(line) ==
  <<identify_service(FieldsOf(line)[3]), FieldsOf(line)[2], normalize_url(FieldsOf(line)[3])>>

\* the keys of the counted records of a stream, in stream order
CountedTriples(stream) ==
  LET counted == SelectSeq(stream, Qualifies)
  IN [j \in 1..Len(counted) |-> TripleOf(counted[j])]

\* the positions of ts at which a key is observed for the first time
FirstSeen(ts) == { j \in 1..Len(ts) : \A m \in 1..(j - 1) : ts[m] # ts[j] }

\* the n-th smallest member of a set of numbers
Nth(S, n) == CHOOSE x \in S : Cardinality({ y \in S : y < x }) = n - 1

\* C5: the report is the header row followed by one row per distinct key of
\* the counted records, in order of first observation, each with the number of
\* counted records of that key.
C5_ReportRowsFirstSeenOrder ==
  pc = "done" =>
    LET ts == CountedTriples(parsed_file)
        first == FirstSeen(ts)
    IN /\ Len(report) = 1 + Cardinality(first)
       /\ report[1] = <<"service", "method", "url", "count">>
       /\ \A i \in 1..Cardinality(first) :
            LET t == ts[Nth(first, i)] IN
            report[i + 1] =
              <<t[1], t[2], t[3], Cardinality({ m \in 1..Len(ts) : ts[m] = t })>>

\* records of URLs A, B, A with the same service and method: A, counted twice,
\* stays ahead of B
C5_Witness ==
  /\ pc = "done"
  /\ Len(parsed_file) = 3
  /\ FieldsOf(parsed_file[1])[3] = UrlA1
  /\ FieldsOf(parsed_file[2])[3] = UrlB
  /\ FieldsOf(parsed_file[3])[3] = UrlA2
  /\ report = << <<"service", "method", "url", "count">>,
                 <<"pepper", "GET", GraphBase \o "<id>/achievements", 2>>,
                 <<"pepper", "GET", GraphBase \o "<id>/posts", 1>> >>

----------------------------------------------------------------------------
(* The program: __main__ runs the downloader, the parser and the analyzer *)

\* the bodies of the remote archives: a good line; a line of 13 fields; a good
\* line, a line of 13 fields and a good line
PipeBodies ==
  { GoodBody, Line13 \o "\n", GoodBody \o Line13 \o "\n" \o GoodBody }

\* the listings of one prefix: no Contents; one key at the start of the
\* window; the keys at its start and at its end; one key inside it; two keys
\* inside it
PipeListings(pfx) ==
  { <<>>, Listing(pfx, Remainders, {3}, GoodBody), Listing(pfx, Remainders, {3, 6}, GoodBody) }
    \cup { Listing(pfx, Remainders, {4}, b) : b \in PipeBodies }
    \cup { Listing(pfx, Remainders, {4, 5}, b) : b \in PipeBodies \ { GoodBody } }

\* the arguments __main__ parses: --external is on by default and cannot be
\* turned off, --internal and --force-download are off unless given
Init ==
  /\ CtlInit("start")
  /\ start = WinStart /\ end = WinEnd
  /\ external = TRUE /\ internal \in BOOLEAN
  /\ force_download \in BOOLEAN
  /\ \E le \in PipeListings(base_prefix(DateOf(WinStart)) \o external_prefix),
        li0 \in PipeListings(base_prefix(DateOf(WinStart)) \o internal_prefix) :
       s3 = [p \in { base_prefix(DateOf(WinStart)) \o external_prefix,
                     base_prefix(DateOf(WinStart)) \o internal_prefix } |->
               IF p = base_prefix(DateOf(WinStart)) \o external_prefix THEN le ELSE li0]
  /\ \E F \in { {}, { Remainders[4] } } : folder = [f \in F |-> GoodBody]
  /\ DlIdle /\ ParIdle /\ AnaIdle /\ LogInit /\ UrlIdle

Next ==
  \/ DownloadStart \/ DownloadWithPrefix \/ DownloadKey \/ DownloadPrefixDone
  \/ DownloadDone
  \/ ParseStart \/ ParseLine \/ ParseFileDone \/ ParseDone
  \/ AnalyzeStart \/ AnalyzeLine \/ WriteReport

Spec == Init /\ [][Next]_vars

\* nothing of the parser or of the analyzer has happened
ParserNeverRan == logs = <<>> /\ lines_read = <<>> /\ temp_file = <<>>

AnalyzerNeverRan == parsed_file = <<>> /\ stats = <<>> /\ report = <<>>

\* the listing of prefix p fails: no entries, or no key strictly in the window
ListingFails(p) == s3[p] = <<>> \/ ~\E k \in ListedKeys(p) : EmbeddedInWindow(k, p)

\* C8: a run that raised an error has stopped and has written no report.  A
\* prefix whose listing has no entries, or none with a time strictly inside
\* the window, is the last prefix listed: the run has stopped with an error
\* (RuntimeError "no files be found on S3" for the empty listing), no object
\* of it was fetched, the parser and the analyzer never ran.  A line with fewer
\* than 14 fields is the last line read: the run has stopped with IndexError,
\* nothing was written for the line, the analyzer never ran.
C8_FailFast ==
  /\ err # "none" <=> pc = "aborted"
  /\ pc = "aborted" => report = <<>>
  /\ \A i \in 1..Len(listed) :
       ListingFails(listed[i]) =>
         /\ pc = "aborted"
         /\ s3[listed[i]] = <<>> => err = NoObjectsFound
         /\ i = Len(listed)
         /\ \A h \in 1..Len(handled) : handled[h].prefix # listed[i]
         /\ ParserNeverRan /\ AnalyzerNeverRan
  /\ \A j \in 1..Len(lines_read) :
       Len(Split(lines_read[j], " ")) < 14 =>
         /\ pc = "aborted" /\ err = IndexError
         /\ j = Len(lines_read)
         /\ Len(temp_file) = j - 1
         /\ AnalyzerNeverRan

\* the first of two prefixes has keys but none inside the window: the run
\* stopped there, the second prefix still to do
C8_Witness ==
  /\ pc = "aborted"
  /\ err = NoObjectsInRange
  /\ Len(listed) = 1
  /\ todo # <<>>
  /\ s3[todo[1]] # <<>>

====
